---------------------------- MODULE Spec2Model ----------------------------
(***************************************************************************)
(* Model of the cell-tree writer (CodePage0), the debug node tree          *)
(* (DbgNode) and the debug info index (DbgInfo) of ton-labs-assembler.     *)
(*                                                                         *)
(* A BuilderData is a record [data, length_in_bits, refs]: data is the     *)
(* sequence of chunks appended so far, a chunk <<command, bits>> being the *)
(* first `bits` bits of the byte string `command` (a command is identified *)
(* by its length in bytes); refs is the sequence of referenced cells.  A   *)
(* Cell is the same record (content addressing: equal cells, equal hash).  *)
(* A DbgNode is a record [offsets, children]: offsets is a function from a *)
(* finite set of bit offsets to positions, children a sequence of DbgNode. *)
(***************************************************************************)
EXTENDS Integers, Sequences, FiniteSets, TLC

\* ------------------------------------------------------------- bounds
\* Number of write calls explored on one writer.
MaxCalls == 5
\* Number of repetitions of the one-byte command in SpecRepeat.
MaxRepeat == 130
\* Number of DbgInfo::insert calls explored in SpecInfo.
MaxInserts == 3
\* Number of children of the root DbgNode handed to the traversal.
MaxChildren == 3
\* Number of DbgNode operations explored in SpecNode.
MaxNodeOps == 5
\* Length of the strings handed to parse_slice_base.
MaxInput == 4
\* Length of the tokens handed to the numeric range parsers.
MaxToken == 3

\* ------------------------------------------- ton_types::BuilderData
BitsCapacity == 1023
RefsCapacity == 4

\* length_in_bits is the builder's own field: the bits of all chunks of data.
BuilderData_new == [data |-> << >>, length_in_bits |-> 0, refs |-> << >>]
bits_used(b) == b.length_in_bits
bits_free(b) == BitsCapacity - bits_used(b)
references_used(b) == Len(b.refs)
references_free(b) == RefsCapacity - references_used(b)

\* append_raw(slice, bits): checks before it mutates; Err when the slice is
\* shorter than `bits` or the bits do not fit.
append_raw_ok(b, command, bits) ==
    /\ command * 8 >= bits
    /\ bits_used(b) + bits <= BitsCapacity
append_raw(b, command, bits) ==
    IF bits = 0 THEN b
    ELSE [b EXCEPT !.data = Append(@, <<command, bits>>),
                   !.length_in_bits = @ + bits]

checked_append_reference_ok(b) == references_free(b) > 0
\* append_reference_cell pushes without a check.
append_reference_cell(b, cell) == [b EXCEPT !.refs = Append(@, cell)]

into_cell_ok(b) ==
    /\ bits_used(b) <= BitsCapacity
    /\ references_used(b) <= RefsCapacity
into_cell(b) == b

\* checked_append_references_and_data(slice of cell): all or nothing.
checked_append_references_and_data_ok(b, cell) ==
    /\ references_free(b) >= Len(cell.refs)
    /\ bits_free(b) >= cell.length_in_bits
checked_append_references_and_data(b, cell) ==
    [data |-> b.data \o cell.data,
     length_in_bits |-> b.length_in_bits + cell.length_in_bits,
     refs |-> b.refs \o cell.refs]

\* --------------------------------------------------------- DbgNode
NoOffsets == [k \in {} |-> 0]
DbgNode_new == [offsets |-> NoOffsets, children |-> << >>]
DbgNode_from(pos) == [offsets |-> (0 :> pos), children |-> << >>]

\* BTreeMap::insert overwrites the previous binding.
OffsetInsert(offsets, offset, pos) ==
    [k \in (DOMAIN offsets) \cup {offset} |->
        IF k = offset THEN pos ELSE offsets[k]]

DbgNode_append(self, offset, pos) ==
    [self EXCEPT !.offsets = OffsetInsert(@, offset, pos)]

\* assert!(self.children.len() <= 4) before the push.
append_node_ok(self) == Len(self.children) <= 4
append_node(self, node) == [self EXCEPT !.children = Append(@, node)]

\* inline_node pushes dbg's children one by one through append_node.
inline_node_ok(self, node) ==
    \A i \in 1..Len(node.children) : Len(self.children) + (i - 1) <= 4
\* Faulty variant: the inlined offsets are not moved by `offset`.
inline_node_unshifted(self, offset, node) ==
    [offsets |->
        [k \in (DOMAIN self.offsets) \cup (DOMAIN node.offsets) |->
            IF k \in DOMAIN node.offsets THEN node.offsets[k] ELSE self.offsets[k]],
     children |-> self.children \o node.children]

inline_node(self, offset, node) ==
    [offsets |->
        [k \in (DOMAIN self.offsets) \cup {j + offset : j \in DOMAIN node.offsets} |->
            IF (k - offset) \in DOMAIN node.offsets
            THEN node.offsets[k - offset] ELSE self.offsets[k]],
     children |-> self.children \o node.children]

Last(s) == s[Len(s)]
SetLast(s, v) == [s EXCEPT ![Len(s)] = v]
Front(s) == SubSeq(s, 1, Len(s) - 1)


\* ------------------------------------------------------------ DbgPos
\* Line::new: the position of source line `line` (line_code = line).
DbgPos(line) == [filename |-> "a.code", line |-> line, line_code |-> line]

\* ------------------------------------------------- CodePage0 (writer)
\* A writer value is [cells, dbg]; an operation yields the writer after the
\* call together with the call's result: "Ok", "NotFitInSlice" or "panic".
CodePage0_new == [cells |-> <<BuilderData_new>>, dbg |-> <<DbgNode_new>>]

Outcome(cells_, dbg_, result_) ==
    [cells |-> cells_, dbg |-> dbg_, result |-> result_]

\* Faulty variant: on overflow the new cell takes the place of the last one.
write_command_bitstring_overwrite(w, command, bits, node) ==
    IF w.cells # << >> /\ append_raw_ok(Last(w.cells), command, bits)
    THEN Outcome(SetLast(w.cells, append_raw(Last(w.cells), command, bits)),
                 SetLast(w.dbg, inline_node(Last(w.dbg), bits_used(Last(w.cells)), node)),
                 "Ok")
    ELSE IF append_raw_ok(BuilderData_new, command, bits)
    THEN Outcome(SetLast(w.cells, append_raw(BuilderData_new, command, bits)),
                 SetLast(w.dbg, node),
                 "Ok")
    ELSE Outcome(w.cells, w.dbg, "NotFitInSlice")

\* Faulty variant: the new cell is pushed before its append_raw is checked.
write_command_bitstring_push_first(w, command, bits, node) ==
    IF w.cells # << >> /\ append_raw_ok(Last(w.cells), command, bits)
    THEN Outcome(SetLast(w.cells, append_raw(Last(w.cells), command, bits)),
                 SetLast(w.dbg, inline_node(Last(w.dbg), bits_used(Last(w.cells)), node)),
                 "Ok")
    ELSE IF append_raw_ok(BuilderData_new, command, bits)
    THEN Outcome(Append(w.cells, append_raw(BuilderData_new, command, bits)),
                 Append(w.dbg, node),
                 "Ok")
    ELSE Outcome(Append(w.cells, BuilderData_new), Append(w.dbg, node),
                 "NotFitInSlice")

\* Faulty variant: no new cell is opened when the last one is full.
write_command_bitstring_no_fresh(w, command, bits, node) ==
    IF w.cells # << >> /\ append_raw_ok(Last(w.cells), command, bits)
    THEN Outcome(SetLast(w.cells, append_raw(Last(w.cells), command, bits)),
                 SetLast(w.dbg, inline_node(Last(w.dbg), bits_used(Last(w.cells)), node)),
                 "Ok")
    ELSE Outcome(w.cells, w.dbg, "NotFitInSlice")

\* Faulty variant: the debug node is merged at the offset after the append.
write_command_bitstring_offset_after(w, command, bits, node) ==
    IF w.cells # << >> /\ append_raw_ok(Last(w.cells), command, bits)
    THEN LET offset == bits_used(append_raw(Last(w.cells), command, bits))
         IN  Outcome(SetLast(w.cells, append_raw(Last(w.cells), command, bits)),
                     SetLast(w.dbg, inline_node(Last(w.dbg), offset, node)),
                     IF inline_node_ok(Last(w.dbg), node) THEN "Ok" ELSE "panic")
    ELSE IF append_raw_ok(BuilderData_new, command, bits)
    THEN Outcome(Append(w.cells, append_raw(BuilderData_new, command, bits)),
                 Append(w.dbg, node),
                 "Ok")
    ELSE Outcome(w.cells, w.dbg, "NotFitInSlice")

\* Faulty variant: a new cell is opened for every command after the first.
write_command_bitstring_always_fresh(w, command, bits, node) ==
    IF /\ w.cells # << >>
       /\ bits_used(Last(w.cells)) = 0
       /\ append_raw_ok(Last(w.cells), command, bits)
    THEN LET offset == bits_used(Last(w.cells))
         IN  Outcome(SetLast(w.cells, append_raw(Last(w.cells), command, bits)),
                     SetLast(w.dbg, inline_node(Last(w.dbg), offset, node)),
                     IF inline_node_ok(Last(w.dbg), node) THEN "Ok" ELSE "panic")
    ELSE IF append_raw_ok(BuilderData_new, command, bits)
    THEN Outcome(Append(w.cells, append_raw(BuilderData_new, command, bits)),
                 Append(w.dbg, node),
                 "Ok")
    ELSE Outcome(w.cells, w.dbg, "NotFitInSlice")

write_command_bitstring(w, command, bits, node) ==
    IF w.cells # << >> /\ append_raw_ok(Last(w.cells), command, bits)
    THEN LET offset == bits_used(Last(w.cells))
         IN  Outcome(SetLast(w.cells, append_raw(Last(w.cells), command, bits)),
                     SetLast(w.dbg, inline_node(Last(w.dbg), offset, node)),
                     IF inline_node_ok(Last(w.dbg), node) THEN "Ok" ELSE "panic")
    ELSE IF append_raw_ok(BuilderData_new, command, bits)
    THEN Outcome(Append(w.cells, append_raw(BuilderData_new, command, bits)),
                 Append(w.dbg, node),
                 "Ok")
    ELSE Outcome(w.cells, w.dbg, "NotFitInSlice")

\* Faulty variant: the byte count is passed as the bit count.
write_command_bytes_as_bits(w, command, node) ==
    write_command_bitstring(w, command, command, node)

write_command(w, command, node) ==
    write_command_bitstring(w, command, command * 8, node)

\* Faulty variant: no reference slot is held back for finalize.
composite_attempt_no_reserve(w, command, reference) ==
    IF w.cells = << >> THEN "fresh"
    ELSE LET last == Last(w.cells)
         IN  IF ~(references_free(last) > 0) THEN "fresh"
             ELSE IF ~append_raw_ok(last, command, command * 8) THEN "fresh"
             ELSE IF ~into_cell_ok(reference) THEN "error"
             ELSE "inplace"

\* Faulty variant: two reference slots are held back.
composite_attempt_two_reserved(w, command, reference) ==
    IF w.cells = << >> THEN "fresh"
    ELSE LET last == Last(w.cells)
         IN  IF ~(references_free(last) > 2) THEN "fresh"
             ELSE IF ~append_raw_ok(last, command, command * 8) THEN "fresh"
             ELSE IF ~into_cell_ok(reference) THEN "error"
             ELSE IF checked_append_reference_ok(append_raw(last, command, command * 8))
                  THEN "inplace" ELSE "fresh"

\* The attempt on a clone of the last cell (lines 126-130): "inplace" when it
\* is committed, "error" when reference.into_cell() fails inside the
\* condition (the `?`), "fresh" when the code falls through to a new cell.
composite_attempt(w, command, reference) ==
    IF w.cells = << >> THEN "fresh"
    ELSE LET last == Last(w.cells)
         IN  IF ~(references_free(last) > 1) THEN "fresh"
             ELSE IF ~append_raw_ok(last, command, command * 8) THEN "fresh"
             ELSE IF ~into_cell_ok(reference) THEN "error"
             ELSE IF checked_append_reference_ok(append_raw(last, command, command * 8))
                  THEN "inplace" ELSE "fresh"

\* Faulty variant: the new cell is pushed without its debug node.
write_composite_command_no_dbg_push(w, command, reference, pos, node) ==
    LET attempt == composite_attempt(w, command, reference)
    IN  IF attempt = "inplace"
        THEN LET last == Last(w.cells)
                 offset == bits_used(last)
                 bound == DbgNode_append(Last(w.dbg), offset, pos)
             IN  Outcome(SetLast(w.cells,
                             append_reference_cell(
                                 append_raw(last, command, command * 8),
                                 into_cell(reference))),
                         SetLast(w.dbg, append_node(bound, node)),
                         IF append_node_ok(bound) THEN "Ok" ELSE "panic")
        ELSE IF attempt = "error" \/ ~into_cell_ok(reference)
        THEN Outcome(w.cells, w.dbg, "NotFitInSlice")
        ELSE IF /\ append_raw_ok(BuilderData_new, command, command * 8)
                /\ checked_append_reference_ok(
                       append_raw(BuilderData_new, command, command * 8))
        THEN Outcome(Append(w.cells,
                         append_reference_cell(
                             append_raw(BuilderData_new, command, command * 8),
                             into_cell(reference))),
                     w.dbg,
                     "Ok")
        ELSE Outcome(w.cells, w.dbg, "NotFitInSlice")

\* Faulty variant: pos is bound in the last debug node before the new cell is opened.
write_composite_command_marks_last(w, command, reference, pos, node) ==
    LET attempt == composite_attempt(w, command, reference)
    IN  IF attempt = "inplace"
        THEN LET last == Last(w.cells)
                 offset == bits_used(last)
                 bound == DbgNode_append(Last(w.dbg), offset, pos)
             IN  Outcome(SetLast(w.cells,
                             append_reference_cell(
                                 append_raw(last, command, command * 8),
                                 into_cell(reference))),
                         SetLast(w.dbg, append_node(bound, node)),
                         IF append_node_ok(bound) THEN "Ok" ELSE "panic")
        ELSE IF attempt = "error" \/ ~into_cell_ok(reference)
        THEN Outcome(w.cells, w.dbg, "NotFitInSlice")
        ELSE IF /\ append_raw_ok(BuilderData_new, command, command * 8)
                /\ checked_append_reference_ok(
                       append_raw(BuilderData_new, command, command * 8))
        THEN Outcome(Append(w.cells,
                         append_reference_cell(
                             append_raw(BuilderData_new, command, command * 8),
                             into_cell(reference))),
                     Append(SetLast(w.dbg,
                                DbgNode_append(Last(w.dbg), bits_used(Last(w.cells)), pos)),
                         append_node(DbgNode_append(DbgNode_new, 0, pos), node)),
                     "Ok")
        ELSE Outcome(w.cells, w.dbg, "NotFitInSlice")

write_composite_command(w, command, reference, pos, node) ==
    LET attempt == composite_attempt(w, command, reference)
    IN  IF attempt = "inplace"
        THEN LET last == Last(w.cells)
                 offset == bits_used(last)
                 bound == DbgNode_append(Last(w.dbg), offset, pos)
             IN  Outcome(SetLast(w.cells,
                             append_reference_cell(
                                 append_raw(last, command, command * 8),
                                 into_cell(reference))),
                         SetLast(w.dbg, append_node(bound, node)),
                         IF append_node_ok(bound) THEN "Ok" ELSE "panic")
        ELSE IF attempt = "error" \/ ~into_cell_ok(reference)
        THEN Outcome(w.cells, w.dbg, "NotFitInSlice")
        ELSE IF /\ append_raw_ok(BuilderData_new, command, command * 8)
                /\ checked_append_reference_ok(
                       append_raw(BuilderData_new, command, command * 8))
        THEN Outcome(Append(w.cells,
                         append_reference_cell(
                             append_raw(BuilderData_new, command, command * 8),
                             into_cell(reference))),
                     Append(w.dbg,
                         append_node(DbgNode_append(DbgNode_new, 0, pos), node)),
                     "Ok")
        ELSE Outcome(w.cells, w.dbg, "NotFitInSlice")

\* One iteration of finalize's loop (lines 171-203) on the popped
\* `destination`/`next` and the current `cursor`/`dbg`: the new cursor and
\* dbg, and "panic" when an expect or an assertion fails.
\* Faulty variant: inlining asks for strictly more free references than needed.
finalize_inlines_strict(destination, cursor) ==
    /\ references_free(destination) > references_used(cursor)
    /\ checked_append_references_and_data_ok(destination, into_cell(cursor))

finalize_inlines(destination, cursor) ==
    /\ references_free(destination) >= references_used(cursor)
    /\ checked_append_references_and_data_ok(destination, into_cell(cursor))

\* Faulty variant: the linking case forgets next.append_node(dbg).
finalize_step_no_child(destination, next, cursor, cursor_dbg) ==
    IF ~into_cell_ok(cursor)
    THEN [cursor |-> destination, dbg |-> next, result |-> "panic"]
    ELSE IF finalize_inlines(destination, cursor)
    THEN [cursor |-> checked_append_references_and_data(destination, into_cell(cursor)),
          dbg |-> inline_node(next, bits_used(destination), cursor_dbg),
          result |-> IF inline_node_ok(next, cursor_dbg) THEN "Ok" ELSE "panic"]
    ELSE [cursor |-> append_reference_cell(destination, into_cell(cursor)),
          dbg |-> next,
          result |-> "Ok"]

\* Faulty variant: the inlined debug node keeps its own offsets.
finalize_step_unshifted(destination, next, cursor, cursor_dbg) ==
    IF ~into_cell_ok(cursor)
    THEN [cursor |-> destination, dbg |-> next, result |-> "panic"]
    ELSE IF finalize_inlines(destination, cursor)
    THEN [cursor |-> checked_append_references_and_data(destination, into_cell(cursor)),
          dbg |-> inline_node(next, 0, cursor_dbg),
          result |-> IF inline_node_ok(next, cursor_dbg) THEN "Ok" ELSE "panic"]
    ELSE [cursor |-> append_reference_cell(destination, into_cell(cursor)),
          dbg |-> append_node(next, cursor_dbg),
          result |-> IF append_node_ok(next) THEN "Ok" ELSE "panic"]

\* Faulty variant: the link is put before destination's references.
finalize_step_link_first(destination, next, cursor, cursor_dbg) ==
    IF ~into_cell_ok(cursor)
    THEN [cursor |-> destination, dbg |-> next, result |-> "panic"]
    ELSE IF finalize_inlines(destination, cursor)
    THEN [cursor |-> checked_append_references_and_data(destination, into_cell(cursor)),
          dbg |-> inline_node(next, bits_used(destination), cursor_dbg),
          result |-> IF inline_node_ok(next, cursor_dbg) THEN "Ok" ELSE "panic"]
    ELSE [cursor |-> [destination EXCEPT !.refs = <<into_cell(cursor)>> \o @],
          dbg |-> [next EXCEPT !.children = <<cursor_dbg>> \o @],
          result |-> IF append_node_ok(next) THEN "Ok" ELSE "panic"]

finalize_step(destination, next, cursor, cursor_dbg) ==
    IF ~into_cell_ok(cursor)
    THEN [cursor |-> destination, dbg |-> next, result |-> "panic"]
    ELSE IF finalize_inlines(destination, cursor)
    THEN [cursor |-> checked_append_references_and_data(destination, into_cell(cursor)),
          dbg |-> inline_node(next, bits_used(destination), cursor_dbg),
          result |-> IF inline_node_ok(next, cursor_dbg) THEN "Ok" ELSE "panic"]
    ELSE [cursor |-> append_reference_cell(destination, into_cell(cursor)),
          dbg |-> append_node(next, cursor_dbg),
          result |-> IF append_node_ok(next) THEN "Ok" ELSE "panic"]

\* ------------------------------------------------------------ inputs
\* Command byte strings, by length in bytes: 8, 1016 and 1024 bits.
CommandLens == {1, 127, 128}
\* (command, bits) arguments of write_command_bitstring; <<1, 9>> asks for
\* more bits than the slice holds.
Bitstrings == {<<1, 0>>, <<1, 8>>, <<1, 9>>, <<127, 1016>>, <<128, 1023>>, <<128, 1024>>}

\* Reference builders of composite commands with the DbgNode mirroring them
\* (the result of compiling the nested block with its own writer).
LeafRef ==
    [builder |-> [data |-> << <<1, 8>> >>, length_in_bits |-> 8, refs |-> << >>],
     node |-> DbgNode_from(DbgPos(0))]
NestedRef ==
    [builder |-> [data |-> << <<1, 8>> >>, length_in_bits |-> 8,
                  refs |-> << LeafRef.builder >>],
     node |-> [offsets |-> (0 :> DbgPos(0)), children |-> << LeafRef.node >>]]
References == {LeafRef, NestedRef}

\* ------------------------------------------------------------ DbgInfo
\* UInt256::to_hex_string at a width of two hex digits (hashes below 256).
HexChars ==
    <<"0", "1", "2", "3", "4", "5", "6", "7", "8", "9", "a", "b", "c", "d", "e", "f">>
to_hex_string(key) == HexChars[(key \div 16) + 1] \o HexChars[(key % 16) + 1]

DbgInfo_new == [k \in {} |-> NoOffsets]

\* Faulty variant: self.map.insert(key.to_hex_string(), tree), which overwrites.
DbgInfo_insert_overwrite(m, key, tree) ==
    [k \in (DOMAIN m) \cup {to_hex_string(key)} |->
        IF k = to_hex_string(key) THEN tree ELSE m[k]]

\* self.map.entry(key.to_hex_string()).or_insert(tree)
DbgInfo_insert(m, key, tree) ==
    IF to_hex_string(key) \in DOMAIN m
    THEN m
    ELSE [k \in (DOMAIN m) \cup {to_hex_string(key)} |->
            IF k = to_hex_string(key) THEN tree ELSE m[k]]

\* DbgInfo::append is BTreeMap::append: every binding of `other` is moved
\* into self, replacing self's binding of the same key.
DbgInfo_append(m, other_) ==
    [k \in (DOMAIN m) \cup (DOMAIN other_) |->
        IF k \in DOMAIN other_ THEN other_[k] ELSE m[k]]

\* Hashes and offset maps handed to DbgInfo::insert.
Hashes == {10, 160}
OffsetMaps ==
    { (0 :> DbgPos(1)),
      (0 :> DbgPos(2)),
      [k \in {0, 8} |-> IF k = 0 THEN DbgPos(1) ELSE DbgPos(3)] }

\* The DbgInfo maps that inserts of these hashes and offset maps build.
InfoMaps ==
    UNION {[{to_hex_string(key) : key \in keys} -> OffsetMaps] :
              keys \in SUBSET Hashes}

\* Cell::repr_hash on the cells of the trees walked by collect: distinct
\* cells, distinct hashes.
Leaf1 == LeafRef.builder
Leaf2 == [data |-> << <<1, 8>>, <<1, 8>> >>, length_in_bits |-> 16, refs |-> << >>]
Mid == NestedRef.builder
RootTwin == [data |-> << >>, length_in_bits |-> 0, refs |-> <<Leaf1, Leaf1>>]
RootMixed == [data |-> << >>, length_in_bits |-> 0, refs |-> <<Mid, Leaf2>>]
KnownCells == <<Leaf1, Leaf2, Mid, RootTwin, RootMixed>>
repr_hash(cell) == 17 * (CHOOSE i \in 1..Len(KnownCells) : KnownCells[i] = cell)

\* collect / stackless_collect, lines 240-244 and 260-264: the binding is
\* added only when the hash is not a key yet.
collect_node(m, cell, node) ==
    LET hash == to_hex_string(repr_hash(cell))
    IN  IF hash \in DOMAIN m
        THEN m
        ELSE [k \in (DOMAIN m) \cup {hash} |->
                IF k = hash THEN node.offsets ELSE m[k]]

\* DbgInfo::collect: [map, panic]; dbg.children[i] panics when the DbgNode
\* has no child i.
RECURSIVE collect(_, _, _)
RECURSIVE collect_children(_, _, _, _)
collect(m, cell, node) ==
    collect_children(collect_node(m, cell, node), cell, node, 1)
collect_children(m, cell, node, i) ==
    IF i > Len(cell.refs)
    THEN [map |-> m, panic |-> FALSE]
    ELSE IF i > Len(node.children)
    THEN [map |-> m, panic |-> TRUE]
    ELSE LET sub == collect(m, cell.refs[i], node.children[i])
         IN  IF sub.panic THEN sub
             ELSE collect_children(sub.map, cell, node, i + 1)

\* Faulty variant: only the root cell is registered.
DbgInfo_from_root_only(cell, node) ==
    [map |-> collect_node(DbgInfo_new, cell, node), panic |-> FALSE]

\* DbgInfo::from
DbgInfo_from(cell, node) == collect(DbgInfo_new, cell, node)

\* One iteration of stackless_collect's loop (lines 259-272) on the work
\* stack `st` of <<cell, node>> pairs: [map, stack, panic]; the expect
\* panics when the DbgNode has no child for a subcell.
stackless_step(m, st) ==
    LET cell == Last(st)[1]
        node == Last(st)[2]
    IN  [map |-> collect_node(m, cell, node),
         stack |-> Front(st) \o
                   [i \in 1..Len(cell.refs) |->
                       <<cell.refs[i],
                         IF i <= Len(node.children)
                         THEN node.children[i] ELSE DbgNode_new>>],
         panic |-> Len(node.children) < Len(cell.refs)]

\* Trees handed to the traversal: cells, and DbgNode trees with up to
\* MaxChildren children at the root (mirroring the cell or not).
WalkCells == {Leaf1, Mid, RootTwin, RootMixed}
LeafNodes == {DbgNode_from(DbgPos(1)), DbgNode_from(DbgPos(2))}
MidNodes ==
    {[offsets |-> (0 :> DbgPos(3)), children |-> <<n>>] : n \in LeafNodes}
ChildSeqs ==
    UNION {[1..n -> LeafNodes \cup MidNodes] : n \in 0..MaxChildren}
WalkNodes ==
    {[offsets |-> (0 :> DbgPos(4)), children |-> s] : s \in ChildSeqs}
StartMaps ==
    {DbgInfo_new, collect_node(DbgInfo_new, Leaf1, DbgNode_from(DbgPos(5)))}

\* ------------------------------------------------- parse_slice_base
\* u8 arithmetic: `as u8` keeps the low 8 bits.
AsU8(x) == x % 256
RECURSIVE BitOr(_, _)
BitOr(a, b) ==
    IF a = 0 THEN b
    ELSE IF b = 0 THEN a
    ELSE (IF a % 2 = 1 \/ b % 2 = 1 THEN 1 ELSE 0) + 2 * BitOr(a \div 2, b \div 2)

\* char::to_digit(base): the digit's value, or None (-1).
None == -1
LowerDigits ==
    <<"0", "1", "2", "3", "4", "5", "6", "7", "8", "9", "a", "b", "c", "d", "e", "f">>
UpperDigits ==
    <<"0", "1", "2", "3", "4", "5", "6", "7", "8", "9", "A", "B", "C", "D", "E", "F">>
to_digit(ch, base) ==
    LET found == {d \in 1..Len(LowerDigits) :
                     (LowerDigits[d] = ch \/ UpperDigits[d] = ch) /\ d - 1 < base}
    IN  IF found = {} THEN None ELSE (CHOOSE d \in found : TRUE) - 1

\* The locals of parse_slice_base when it is entered (lines 243-246); `i` is
\* the index of the next character of input.
parse_slice_base_enter(chars, bits, base) ==
    [input |-> chars, offset |-> bits, base |-> base, i |-> 1,
     bits |-> bits, acc |-> 0, data |-> << >>, completion_tag |-> FALSE,
     pc |-> "loop", result |-> "none"]

\* Faulty variant: the low part of a straddling digit is shifted one bit short.
parse_digit_short_shift(st, x) ==
    IF st.bits < 4
    THEN [st EXCEPT !.acc = BitOr(@, AsU8(x * 2^(4 - st.bits))),
                    !.bits = @ + 4]
    ELSE [st EXCEPT !.data = Append(@, BitOr(st.acc, AsU8(x) \div 2^(st.bits - 4))),
                    !.acc = AsU8(x * 2^(11 - st.bits)),
                    !.bits = @ - 4]

\* The Some(x) arm, lines 253-260.
parse_digit(st, x) ==
    IF st.bits < 4
    THEN [st EXCEPT !.acc = BitOr(@, AsU8(x * 2^(4 - st.bits))),
                    !.bits = @ + 4]
    ELSE [st EXCEPT !.data = Append(@, BitOr(st.acc, AsU8(x) \div 2^(st.bits - 4))),
                    !.acc = AsU8(x * 2^(12 - st.bits)),
                    !.bits = @ - 4]

\* One iteration of the loop over input.chars(), lines 247-270.
parse_char(st) ==
    LET ch == st.input[st.i]
        x == to_digit(ch, st.base)
        failed == [st EXCEPT !.pc = "done", !.result = "UnexpectedType"]
    IN  IF st.completion_tag THEN failed
        ELSE IF x # None THEN [parse_digit(st, x) EXCEPT !.i = @ + 1]
        ELSE IF ch = "_" THEN [st EXCEPT !.completion_tag = TRUE, !.i = @ + 1]
        ELSE failed

\* Faulty variant: no completion byte after a byte-aligned input.
parse_finish_no_tag(st) ==
    LET acc == IF st.bits # 0 /\ ~st.completion_tag
               THEN BitOr(st.acc, 2^(7 - st.bits)) ELSE st.acc
        data == IF st.bits # 0
                THEN IF acc # 0 \/ st.data = << >>
                     THEN Append(st.data, acc) ELSE st.data
                ELSE st.data
    IN  [st EXCEPT !.acc = acc, !.data = data, !.pc = "done", !.result = "Ok"]

\* After the loop, lines 271-281.
parse_finish(st) ==
    LET acc == IF st.bits # 0 /\ ~st.completion_tag
               THEN BitOr(st.acc, 2^(7 - st.bits)) ELSE st.acc
        data == IF st.bits # 0
                THEN IF acc # 0 \/ st.data = << >>
                     THEN Append(st.data, acc) ELSE st.data
                ELSE IF ~st.completion_tag
                THEN Append(st.data, 128) ELSE st.data
    IN  [st EXCEPT !.acc = acc, !.data = data, !.pc = "done", !.result = "Ok"]

\* Characters of the input strings: hex digits of both cases, the completion
\* marker and a character that is no digit.
Chars == {"0", "4", "b", "F", "_", "g"}
Inputs == UNION {[1..n -> Chars] : n \in 0..MaxInput}
\* debug_assert!(bits < 8)
Offsets == 0..7

\* ------------------------------------------------------- parse_range
\* A primitive integer type: signedness and the values of its width.
IntType(signed, width) ==
    LET half == 2^(width - 2)
    IN  [signed |-> signed,
         min |-> IF signed THEN (-half) - half ELSE 0,
         max |-> IF signed THEN (half - 1) + half ELSE 2^width - 1]

Ok(value) == [ok |-> TRUE, value |-> value, err |-> "none"]
Err(e) == [ok |-> FALSE, value |-> 0, err |-> e]

RECURSIVE Decimal(_)
Decimal(digits) ==
    IF digits = << >> THEN 0
    ELSE 10 * Decimal(Front(digits)) + to_digit(Last(digits), 10)

\* T::from_str_radix(p, 10): an optional sign ('-' only for a signed type)
\* and at least one digit; a value outside the type is an error.
from_str_radix(T, p) ==
    IF p = << >> THEN Err("ParseIntError")
    ELSE IF p[1] \in {"+", "-"} /\ Len(p) = 1 THEN Err("ParseIntError")
    ELSE LET negative == p[1] = "-" /\ T.signed
             digits == IF p[1] = "+" \/ negative THEN Tail(p) ELSE p
             value == (IF negative THEN -1 ELSE 1) * Decimal(digits)
         IN  IF \E k \in 1..Len(digits) : to_digit(digits[k], 10) = None
             THEN Err("ParseIntError")
             ELSE IF value < T.min \/ value > T.max THEN Err("ParseIntError")
             ELSE Ok(value)

\* std::ops::Bound
Included(v) == [bound |-> "Included", v |-> v]
Excluded(v) == [bound |-> "Excluded", v |-> v]
Unbounded == [bound |-> "Unbounded", v |-> 0]

parse_range(T, start, end, p) ==
    LET r == from_str_radix(T, p)
    IN  IF ~r.ok THEN Err("UnexpectedType")
        ELSE IF start.bound = "Included" /\ r.value < start.v THEN Err("OutOfRange")
        ELSE IF start.bound = "Excluded" /\ r.value <= start.v THEN Err("OutOfRange")
        ELSE IF end.bound = "Included" /\ r.value > end.v THEN Err("OutOfRange")
        ELSE IF end.bound = "Excluded" /\ r.value >= end.v THEN Err("OutOfRange")
        ELSE r

\* Result::map
MapAsU8(r) == IF r.ok THEN Ok(AsU8(r.value)) ELSE r
MapLowNibble(r) == IF r.ok THEN Ok(AsU8(r.value % 16)) ELSE r

parse_const_u2(par) ==
    parse_range(IntType(FALSE, 8), Included(0), Excluded(4), par)
parse_const_i4(par) ==
    MapLowNibble(parse_range(IntType(TRUE, 8), Included(-1), Included(14), par))
parse_const_u4(par) ==
    parse_range(IntType(FALSE, 8), Included(0), Included(15), par)
parse_const_u4_14(par) ==
    MapAsU8(parse_range(IntType(TRUE, 8), Included(0), Included(14), par))
parse_const_u4_nonzero(par) ==
    parse_range(IntType(FALSE, 8), Included(1), Included(16), par)
parse_const_u10(par) ==
    parse_range(IntType(FALSE, 16), Included(0), Excluded(1024), par)

\* Faulty variant: 240 is accepted.
parse_const_u8_setcp_inclusive(par) ==
    MapAsU8(parse_range(IntType(TRUE, 32), Included(-15), Included(240), par))

parse_const_u8_setcp(par) ==
    MapAsU8(parse_range(IntType(TRUE, 32), Included(-15), Excluded(240), par))
parse_const_i8(par) ==
    MapAsU8(parse_range(IntType(TRUE, 16), Included(-128), Included(127), par))

Parsers ==
    {"parse_const_u2", "parse_const_i4", "parse_const_u4", "parse_const_u4_14",
     "parse_const_u4_nonzero", "parse_const_u10", "parse_const_u8_setcp",
     "parse_const_i8"}
parse_const(parser, par) ==
    CASE parser = "parse_const_u2" -> parse_const_u2(par)
      [] parser = "parse_const_i4" -> parse_const_i4(par)
      [] parser = "parse_const_u4" -> parse_const_u4(par)
      [] parser = "parse_const_u4_14" -> parse_const_u4_14(par)
      [] parser = "parse_const_u4_nonzero" -> parse_const_u4_nonzero(par)
      [] parser = "parse_const_u10" -> parse_const_u10(par)
      [] parser = "parse_const_u8_setcp" -> parse_const_u8_setcp(par)
      [] parser = "parse_const_i8" -> parse_const_i8(par)

\* Characters of the tokens: the signs and decimal digits.
TokenChars == {"-", "+", "0", "1", "2", "3", "4", "5", "6", "9"}
Tokens == UNION {[1..n -> TokenChars] : n \in 0..MaxToken}

\* ------------------------------------------------------------- state
VARIABLES
    cells,       \* CodePage0.cells
    dbg,         \* CodePage0.dbg
    cursor,      \* finalize's local `cursor`
    cursor_dbg,  \* finalize's local `dbg`
    pc,          \* "write", "loop" (inside finalize), "done", "panicked"
    result,      \* result of the last call
    calls,       \* number of write calls made
    call,        \* the last call (or finalize step) and its arguments
    history,     \* what the successful writes wrote, in call order
    map,         \* DbgInfo.map
    inserted,    \* the DbgInfo::insert calls made, in order: <<key, tree>>
    other,       \* the map of the DbgInfo handed to DbgInfo::append
    input,       \* the traversal's arguments: [cell, node, map]
    rec,         \* outcome of the recursive collect: [map, panic]
    stack,       \* stackless_collect's work stack
    cpc,         \* "idle", "collect", "stackless", "loop", "done", "panicked"
    dnode,       \* a DbgNode under append / append_node / inline_node
    npc,         \* "ok", or "panicked" once an assertion of append_node failed
    nops,        \* number of operations applied to dnode
    parse,       \* the arguments and locals of parse_slice_base
    range        \* a numeric range parser, its token and its result

writerVars ==
    <<cells, dbg, cursor, cursor_dbg, pc, result, calls, call, history>>
infoVars == <<map, inserted, other>>
collectVars == <<input, rec, stack, cpc>>
nodeVars == <<dnode, npc, nops>>
parseVars == <<parse, range>>
vars ==
    <<cells, dbg, cursor, cursor_dbg, pc, result, calls, call, history,
      map, inserted, other,
      input, rec, stack, cpc, dnode, npc, nops, parse, range>>

Writer == [cells |-> cells, dbg |-> dbg]

WriterInit ==
    /\ cells = CodePage0_new.cells
    /\ dbg = CodePage0_new.dbg
    /\ cursor = BuilderData_new
    /\ cursor_dbg = DbgNode_new
    /\ pc = "write"
    /\ result = "none"
    /\ calls = 0
    /\ call = [op |-> "new"]
    /\ history = [data |-> << >>, refs |-> << >>, nodes |-> << >>,
                  splits |-> {}, zero |-> FALSE]

\* The history after call `c` with outcome `out`: a successful write adds
\* its bits, a composite one its reference and debug node as well; `splits`
\* holds the indices of the segments that write_command_bitstring opened,
\* `zero` tells whether a command of no bits was written.
Logged(c, out) ==
    IF out.result # "Ok" THEN history
    ELSE LET composite == c.op = "write_composite_command"
         IN  [data |-> IF c.bits > 0
                       THEN Append(history.data, <<c.command, c.bits>>)
                       ELSE history.data,
              refs |-> IF composite
                       THEN Append(history.refs, c.reference) ELSE history.refs,
              nodes |-> IF composite
                        THEN Append(history.nodes, c.node) ELSE history.nodes,
              splits |-> IF ~composite /\ Len(out.cells) > Len(cells)
                         THEN history.splits \cup {Len(out.cells)}
                         ELSE history.splits,
              zero |-> history.zero \/ c.bits = 0]

\* No traversal under way.
CollectIdle ==
    /\ input = [cell |-> BuilderData_new, node |-> DbgNode_new, map |-> DbgInfo_new]
    /\ rec = [map |-> DbgInfo_new, panic |-> FALSE]
    /\ stack = << >>
    /\ cpc = "idle"

\* DbgNode::new()
NodeInit ==
    /\ dnode = DbgNode_new
    /\ npc = "ok"
    /\ nops = 0

\* No parse under way.
ParseIdle ==
    parse = [parse_slice_base_enter(<< >>, 0, 16) EXCEPT !.pc = "idle"]
RangeIdle ==
    range = [parser |-> "none", par |-> << >>, pc |-> "idle", result |-> Err("none")]

Init ==
    /\ WriterInit
    /\ map = DbgInfo_new
    /\ inserted = << >>
    /\ other = DbgInfo_new
    /\ CollectIdle
    /\ NodeInit
    /\ ParseIdle
    /\ RangeIdle

\* The state after a write call with outcome `out`.
Called(out) ==
    /\ cells' = out.cells
    /\ dbg' = out.dbg
    /\ result' = out.result
    /\ pc' = IF out.result = "panic" THEN "panicked" ELSE "write"
    /\ calls' = calls + 1
    /\ history' = Logged(call', out)
    /\ UNCHANGED <<cursor, cursor_dbg>>
    /\ UNCHANGED <<infoVars, collectVars, nodeVars, parseVars>>

\* The n-th command comes from source line n.
NextPos == DbgPos(calls + 1)

BitstringCall(command, bits) ==
    [op |-> "write_command_bitstring", command |-> command, bits |-> bits,
     pos |-> NextPos]

\* write_command is the write_command_bitstring call it delegates to.
WriteCommand ==
    /\ pc = "write"
    /\ calls < MaxCalls
    /\ \E command \in CommandLens :
          /\ call' = BitstringCall(command, command * 8)
          /\ Called(write_command(Writer, command, DbgNode_from(NextPos)))

WriteCommandBitstring ==
    /\ pc = "write"
    /\ calls < MaxCalls
    /\ \E cb \in Bitstrings :
          /\ call' = BitstringCall(cb[1], cb[2])
          /\ Called(write_command_bitstring(Writer, cb[1], cb[2], DbgNode_from(NextPos)))

WriteCompositeCommand ==
    /\ pc = "write"
    /\ calls < MaxCalls
    /\ \E command \in CommandLens, r \in References :
          /\ call' = [op |-> "write_composite_command", command |-> command,
                      bits |-> command * 8, reference |-> r.builder,
                      pos |-> NextPos, node |-> r.node]
          /\ Called(write_composite_command(Writer, command, r.builder, NextPos, r.node))

\* finalize, lines 167-168.
FinalizeStart ==
    /\ pc = "write"
    /\ IF cells = << >>
       THEN /\ pc' = "panicked"
            /\ result' = "panic"
            /\ UNCHANGED <<cells, dbg, cursor, cursor_dbg>>
       ELSE /\ cursor' = Last(cells)
            /\ cursor_dbg' = Last(dbg)
            /\ cells' = Front(cells)
            /\ dbg' = Front(dbg)
            /\ pc' = "loop"
            /\ result' = "none"
    /\ call' = [op |-> "finalize", segments |-> Len(cells), iterations |-> 0,
                links |-> 0]
    /\ UNCHANGED <<calls, history>>
    /\ UNCHANGED <<infoVars, collectVars, nodeVars, parseVars>>

\* finalize, one iteration of the loop of lines 170-204.
FinalizeStep ==
    /\ pc = "loop"
    /\ cells # << >>
    /\ LET step == finalize_step(Last(cells), Last(dbg), cursor, cursor_dbg)
       IN  /\ cursor' = step.cursor
           /\ cursor_dbg' = step.dbg
           /\ result' = step.result
           /\ pc' = IF step.result = "panic" THEN "panicked" ELSE "loop"
    /\ call' = [op |-> "finalize_step", destination |-> Last(cells),
                next |-> Last(dbg), cursor |-> cursor, dbg |-> cursor_dbg,
                segments |-> call.segments, iterations |-> call.iterations + 1,
                links |-> IF finalize_inlines(Last(cells), cursor)
                          THEN call.links ELSE call.links + 1]
    /\ cells' = Front(cells)
    /\ dbg' = Front(dbg)
    /\ UNCHANGED <<calls, history>>
    /\ UNCHANGED <<infoVars, collectVars, nodeVars, parseVars>>

\* finalize, line 205.
FinalizeReturn ==
    /\ pc = "loop"
    /\ cells = << >>
    /\ pc' = "done"
    /\ result' = "Ok"
    /\ call' = [op |-> "finalize_return", segments |-> call.segments,
                iterations |-> call.iterations, links |-> call.links]
    /\ UNCHANGED <<cells, dbg, cursor, cursor_dbg, calls, history>>
    /\ UNCHANGED <<infoVars, collectVars, nodeVars, parseVars>>

Next ==
    \/ WriteCommand
    \/ WriteCommandBitstring
    \/ WriteCompositeCommand
    \/ FinalizeStart
    \/ FinalizeStep
    \/ FinalizeReturn

Spec == Init /\ [][Next]_vars

\* ------------------------------------------- the one-byte command, repeated
RepeatWriteCommand ==
    /\ pc = "write"
    /\ calls < MaxRepeat
    /\ call' = BitstringCall(1, 8)
    /\ Called(write_command(Writer, 1, DbgNode_from(NextPos)))

NextRepeat == RepeatWriteCommand

SpecRepeat == Init /\ [][NextRepeat]_vars

\* ------------------------------------------------- DbgInfo::insert calls
Insert ==
    /\ Len(inserted) < MaxInserts
    /\ \E key \in Hashes, tree \in OffsetMaps :
          /\ map' = DbgInfo_insert(map, key, tree)
          /\ inserted' = Append(inserted, <<key, tree>>)
    /\ UNCHANGED <<writerVars, collectVars, nodeVars, parseVars, other>>

NextInfo == Insert

SpecInfo == Init /\ [][NextInfo]_vars

\* ------------------------------------------------------ DbgInfo::append
\* Two DbgInfo values, self (`map`) and `other`, which binds some hash.
InitAppend ==
    /\ WriterInit
    /\ map \in InfoMaps
    /\ inserted = << >>
    /\ other \in InfoMaps \ {DbgInfo_new}
    /\ CollectIdle
    /\ NodeInit
    /\ ParseIdle
    /\ RangeIdle

\* self.append(&mut other): BTreeMap::append leaves `other` empty.
DbgInfoAppend ==
    /\ other # DbgInfo_new
    /\ map' = DbgInfo_append(map, other)
    /\ other' = DbgInfo_new
    /\ UNCHANGED <<writerVars, inserted, collectVars, nodeVars, parseVars>>

NextAppend == DbgInfoAppend

SpecAppend == InitAppend /\ [][NextAppend]_vars

\* ------------------------------- DbgInfo::collect and stackless_collect
\* Both traversals run on the same arguments: first the recursive one, on a
\* DbgInfo holding input.map, then the stackless one, on `map`.
InitCollect ==
    /\ WriterInit
    /\ inserted = << >>
    /\ other = DbgInfo_new
    /\ \E cell \in WalkCells, node \in WalkNodes \cup LeafNodes, m \in StartMaps :
          /\ input = [cell |-> cell, node |-> node, map |-> m]
          /\ map = m
    /\ rec = [map |-> DbgInfo_new, panic |-> FALSE]
    /\ stack = << >>
    /\ cpc = "collect"
    /\ NodeInit
    /\ ParseIdle
    /\ RangeIdle

Collect ==
    /\ cpc = "collect"
    /\ rec' = collect(input.map, input.cell, input.node)
    /\ cpc' = "stackless"
    /\ UNCHANGED <<writerVars, infoVars, nodeVars, parseVars, input, stack>>

\* DbgInfo::from on the same cell and DbgNode.
From ==
    /\ cpc = "collect"
    /\ rec' = DbgInfo_from(input.cell, input.node)
    /\ cpc' = "from"
    /\ UNCHANGED <<writerVars, infoVars, nodeVars, parseVars, input, stack>>

\* stackless_collect, lines 254-256.
StacklessStart ==
    /\ cpc = "stackless"
    /\ stack' = <<<<input.cell, input.node>>>>
    /\ cpc' = "loop"
    /\ UNCHANGED <<writerVars, infoVars, nodeVars, parseVars, input, rec>>

\* stackless_collect, one iteration of the loop of lines 259-272.
StacklessStep ==
    /\ cpc = "loop"
    /\ stack # << >>
    /\ LET step == stackless_step(map, stack)
       IN  /\ map' = step.map
           /\ stack' = step.stack
           /\ cpc' = IF step.panic THEN "panicked" ELSE "loop"
    /\ UNCHANGED <<writerVars, inserted, other, nodeVars, parseVars, input, rec>>

\* stackless_collect returns when the stack is empty.
StacklessReturn ==
    /\ cpc = "loop"
    /\ stack = << >>
    /\ cpc' = "done"
    /\ UNCHANGED <<writerVars, infoVars, nodeVars, parseVars, input, rec, stack>>

NextCollect ==
    \/ Collect
    \/ From
    \/ StacklessStart
    \/ StacklessStep
    \/ StacklessReturn

SpecCollect == InitCollect /\ [][NextCollect]_vars

\* ---------------------------------------------------- DbgNode operations
\* Arguments of the operations.
NodeOffsets == {0, 8}
TwoChildren ==
    [offsets |-> (0 :> DbgPos(2)),
     children |-> <<DbgNode_from(DbgPos(1)), DbgNode_from(DbgPos(2))>>]
InlinedNodes == {DbgNode_from(DbgPos(2)), TwoChildren}

NodeStep(ok, node) ==
    /\ dnode' = IF ok THEN node ELSE dnode
    /\ npc' = IF ok THEN "ok" ELSE "panicked"
    /\ nops' = nops + 1
    /\ UNCHANGED <<writerVars, infoVars, collectVars, parseVars>>

NodeAppend ==
    /\ npc = "ok"
    /\ nops < MaxNodeOps
    /\ \E offset \in NodeOffsets :
          NodeStep(TRUE, DbgNode_append(dnode, offset, DbgPos(1)))

NodeAppendNode ==
    /\ npc = "ok"
    /\ nops < MaxNodeOps
    /\ \E child \in LeafNodes :
          NodeStep(append_node_ok(dnode), append_node(dnode, child))

NodeInlineNode ==
    /\ npc = "ok"
    /\ nops < MaxNodeOps
    /\ \E offset \in NodeOffsets, node \in InlinedNodes :
          NodeStep(inline_node_ok(dnode, node), inline_node(dnode, offset, node))

NextNode ==
    \/ NodeAppend
    \/ NodeAppendNode
    \/ NodeInlineNode

SpecNode == Init /\ [][NextNode]_vars

\* ------------------------------------------------------ parse_slice_base
InitParse ==
    /\ WriterInit
    /\ map = DbgInfo_new
    /\ inserted = << >>
    /\ other = DbgInfo_new
    /\ CollectIdle
    /\ NodeInit
    /\ \E chars \in Inputs, bits \in Offsets :
          parse = parse_slice_base_enter(chars, bits, 16)
    /\ RangeIdle

ParseChar ==
    /\ parse.pc = "loop"
    /\ parse.i <= Len(parse.input)
    /\ parse' = parse_char(parse)
    /\ UNCHANGED <<writerVars, infoVars, collectVars, nodeVars, range>>

ParseFinish ==
    /\ parse.pc = "loop"
    /\ parse.i > Len(parse.input)
    /\ parse' = parse_finish(parse)
    /\ UNCHANGED <<writerVars, infoVars, collectVars, nodeVars, range>>

NextParse ==
    \/ ParseChar
    \/ ParseFinish

SpecParse == InitParse /\ [][NextParse]_vars

\* ---------------------------------------------------------- parse_range
InitRange ==
    /\ WriterInit
    /\ map = DbgInfo_new
    /\ inserted = << >>
    /\ other = DbgInfo_new
    /\ CollectIdle
    /\ NodeInit
    /\ ParseIdle
    /\ \E parser \in Parsers, par \in Tokens :
          range = [parser |-> parser, par |-> par, pc |-> "call",
                   result |-> Err("none")]

ParseConst ==
    /\ range.pc = "call"
    /\ range' = [range EXCEPT !.pc = "done",
                              !.result = parse_const(range.parser, range.par)]
    /\ UNCHANGED <<writerVars, infoVars, collectVars, nodeVars, parse>>

NextRange == ParseConst

SpecRange == InitRange /\ [][NextRange]_vars

\* =================================================================
\* Properties
\* =================================================================
IsWrite(c) == c.op \in {"write_command_bitstring", "write_composite_command"}

\* The call `c` does not fit in the builder `last`.
DoesNotFit(last, c) ==
    \/ bits_used(last) + c.bits > BitsCapacity
    \/ c.op = "write_composite_command" /\ references_free(last) = 0

CapacityOK ==
    \A i \in 1..Len(cells) :
        /\ bits_used(cells[i]) <= BitsCapacity
        /\ references_used(cells[i]) <= RefsCapacity

FreshOnOverflow ==
    (IsWrite(call') /\ DoesNotFit(Last(cells), call')) =>
        /\ SubSeq(cells', 1, Len(cells)) = cells
        /\ (call'.bits <= BitsCapacity /\ call'.bits <= 8 * call'.command) =>
              /\ Len(cells') = Len(cells) + 1
              /\ bits_used(Last(cells')) = call'.bits

RECURSIVE Parity(_, _)
Parity(cell, node) ==
    /\ Len(cell.refs) = Len(node.children)
    /\ \A i \in 1..Len(cell.refs) : Parity(cell.refs[i], node.children[i])

\* C2: after finalize, at every node of the root cell the number of
\* references equals the number of children of the paired DbgNode, child i
\* being paired with reference i.
C2_StructuralParity == pc = "done" => Parity(cursor, cursor_dbg)

C2_Witness ==
    /\ pc = "done"
    /\ references_used(cursor) = 4
    /\ \E i \in 1..4 : references_used(cursor.refs[i]) >= 1
    /\ \E i \in 1..4 : references_used(cursor.refs[i]) = 0

\* C3: every segment of the writer's list keeps at least one reference slot
\* free, in particular the last one after a successful composite write.
C3_ReservedSlot == \A i \in 1..Len(cells) : references_free(cells[i]) >= 1

C3_Witness ==
    /\ call.op = "write_composite_command"
    /\ result = "Ok"
    /\ references_free(Last(cells)) = 1
    /\ Len(cells) >= 2

\* The finalize step recorded in `call` inlined the cursor / linked it.
Inlined ==
    /\ cursor.data = call.destination.data \o call.cursor.data
    /\ cursor.refs = call.destination.refs \o call.cursor.refs
    /\ bits_used(cursor) = bits_used(call.destination) + bits_used(call.cursor)
    /\ cursor_dbg.children = call.next.children \o call.dbg.children
Linked ==
    /\ cursor.refs = Append(call.destination.refs, call.cursor)
    /\ cursor.data = call.destination.data

C5_FailedWriteUntouched ==
    [][(IsWrite(call') /\ result' = "NotFitInSlice")
           => (cells' = cells /\ dbg' = dbg)]_vars

C5_Witness ==
    /\ call.op = "write_composite_command"
    /\ result = "NotFitInSlice"
    /\ Len(cells) >= 2
    /\ references_used(Last(cells)) >= 1

\* C6: write_command_bitstring with bit_count <= 8 * len(bytes) returns
\* NotFitInSlice exactly when bit_count > 1023, and Ok otherwise.
C6_BitstringFailsIffTooLong ==
    (/\ call.op = "write_command_bitstring"
     /\ call.bits <= 8 * call.command)
    => /\ (result = "NotFitInSlice") <=> (call.bits > BitsCapacity)
       /\ (result = "Ok") <=> (call.bits <= BitsCapacity)

C6_Witness ==
    /\ call.op = "write_command_bitstring"
    /\ call.bits = BitsCapacity
    /\ result = "Ok"
    /\ Len(cells) >= 2
    /\ bits_used(cells[Len(cells) - 1]) > 0

\* C7: writing the one-byte command repeatedly keeps one segment for the
\* first 127 writes; the 128th write opens the second segment, leaving 1016
\* bits in the first and 8 in the second, and no later write of the run
\* opens another.
C7_SplitPoint ==
    /\ calls <= 127 => (Len(cells) = 1 /\ bits_used(cells[1]) = 8 * calls)
    /\ calls >= 128 =>
          /\ Len(cells) = 2
          /\ bits_used(cells[1]) = 1016
          /\ bits_used(cells[2]) = 8 * (calls - 127)

C7_Witness ==
    /\ calls = 128
    /\ Len(cells) = 2
    /\ bits_used(cells[1]) = 1016
    /\ bits_used(cells[2]) = 8

\* C8: while the writer accepts writes, the builder list and the debug-node
\* list have the same length, which is at least 1.
C8_SameLength ==
    /\ Len(cells) = Len(dbg)
    /\ pc = "write" => Len(cells) >= 1

C8_Witness ==
    /\ pc = "write"
    /\ Len(cells) = 3
    /\ Len(dbg) = 3
    /\ call.op = "write_composite_command"

FrameOK ==
    IsWrite(call') =>
        /\ Len(cells') >= Len(cells)
        /\ Len(dbg') >= Len(dbg)
        /\ \A i \in 1..(Len(cells) - 1) :
              cells'[i] = cells[i] /\ dbg'[i] = dbg[i]
        /\ Len(cells') > Len(cells) =>
              /\ cells'[Len(cells)] = cells[Len(cells)]
              /\ dbg'[Len(dbg)] = dbg[Len(dbg)]

\* C9: a write never removes a segment, changes no segment other than the
\* last one, and changes not even the last one when it opens a new segment.
C9_AppendOnly == [][FrameOK]_vars

C9_Witness ==
    /\ IsWrite(call)
    /\ result = "Ok"
    /\ Len(cells) = 3
    /\ bits_used(cells[3]) > 8

\* The first insert call made with hash `key`.
FirstInsert(key) ==
    inserted[CHOOSE i \in 1..Len(inserted) :
                /\ inserted[i][1] = key
                /\ \A j \in 1..(i - 1) : inserted[j][1] # key]

\* C10: the map binds exactly the hashes inserted so far, each one to the
\* offsets of the first insert made with it.
C10_FirstWriterWins ==
    /\ DOMAIN map = {to_hex_string(inserted[i][1]) : i \in 1..Len(inserted)}
    /\ \A i \in 1..Len(inserted) :
          map[to_hex_string(inserted[i][1])] = FirstInsert(inserted[i][1])[2]

C10_Witness ==
    \E i, j \in 1..Len(inserted) :
        /\ i < j
        /\ inserted[i][1] = inserted[j][1]
        /\ inserted[i][2] # inserted[j][2]
        /\ map[to_hex_string(inserted[j][1])] = inserted[i][2]
        /\ Cardinality(DOMAIN map) = 2

\* The cell tree and the DbgNode tree disagree on a number of references at
\* some pair of nodes that a lockstep descent pairs.
RECURSIVE Disagree(_, _)
Disagree(cell, node) ==
    \/ Len(cell.refs) # Len(node.children)
    \/ \E i \in 1..Len(cell.refs) :
          i <= Len(node.children) /\ Disagree(cell.refs[i], node.children[i])

\* C11: collect and stackless_collect both panic whenever the cell tree and
\* the DbgNode tree disagree on a reference count, with too few children as
\* with too many.
C11_PanicOnDisagreement ==
    /\ (cpc \in {"stackless", "loop", "done", "panicked"}
            /\ Disagree(input.cell, input.node)) => rec.panic
    /\ cpc = "done" => ~Disagree(input.cell, input.node)

\* C12: a DbgNode whose operations did not panic has at most 4 children.
C12_ChildCeiling == npc = "ok" => Len(dnode.children) <= 4

\* The value of a hex digit, and naive hex decoding of a digit string.
HexValue(ch) ==
    CASE ch = "0" -> 0
      [] ch = "4" -> 4
      [] ch = "b" -> 11
      [] ch = "F" -> 15
AllHex(chars) == \A k \in 1..Len(chars) : chars[k] \in {"0", "4", "b", "F"}
NaiveHex(chars) ==
    [k \in 1..(Len(chars) \div 2) |->
        16 * HexValue(chars[2 * k - 1]) + HexValue(chars[2 * k])]
EvenHexAtZero ==
    /\ parse.pc = "done"
    /\ parse.offset = 0
    /\ AllHex(parse.input)
    /\ Len(parse.input) % 2 = 0

\* C13 as stated: an even-length hex string at offset 0 yields exactly the
\* len/2 bytes of naive hex decoding.
C13_Original ==
    EvenHexAtZero => (parse.result = "Ok" /\ parse.data = NaiveHex(parse.input))

\* C13, amended: an even-length hex string at offset 0 yields len/2 + 1
\* bytes, the bytes of naive hex decoding followed by the completion byte
\* 0x80.
C13_HexThenCompletionByte ==
    EvenHexAtZero =>
        (parse.result = "Ok" /\ parse.data = NaiveHex(parse.input) \o <<128>>)

C13_Witness ==
    /\ parse.pc = "done"
    /\ parse.offset = 0
    /\ parse.input = <<"4", "b", "F", "0">>
    /\ parse.data = <<75, 240, 128>>

\* Bit k of a byte string, MSB-first, and bit j of the digits' nibbles.
Bit(data, k) == (data[(k \div 8) + 1] \div 2^(7 - (k % 8))) % 2
NibbleBit(chars, j) ==
    (HexValue(chars[(j \div 4) + 1]) \div 2^(3 - (j % 4))) % 2
ExpectedBit(chars, offset, k) ==
    LET end == offset + 4 * Len(chars)
    IN  IF k < offset THEN 0
        ELSE IF k < end THEN NibbleBit(chars, k - offset)
        ELSE IF k = end THEN 1
        ELSE 0
Unaligned ==
    /\ parse.pc = "done"
    /\ AllHex(parse.input)
    /\ (parse.offset + 4 * Len(parse.input)) % 8 # 0

\* C16: n hex digits at an initial offset, no completion marker, offset + 4n
\* not a multiple of 8: the result has ceil((offset + 4n) / 8) bytes; bits
\* [offset, offset + 4n) are the nibbles in order, bit offset + 4n is 1 and
\* every other bit is 0.
C16_BitStringCompletion ==
    Unaligned =>
        LET total == parse.offset + 4 * Len(parse.input)
        IN  /\ parse.result = "Ok"
            /\ Len(parse.data) = (total + 7) \div 8
            /\ \A k \in 0..(8 * Len(parse.data) - 1) :
                  Bit(parse.data, k) = ExpectedBit(parse.input, parse.offset, k)

C16_Witness ==
    /\ parse.pc = "done"
    /\ parse.offset = 5
    /\ parse.input = <<"b">>
    /\ parse.data = <<5, 192>>

\* A well-formed base-10 integer token (an optional sign, then digits) and
\* its value.
DecValue(ch) ==
    CASE ch = "0" -> 0 [] ch = "1" -> 1 [] ch = "2" -> 2 [] ch = "3" -> 3
      [] ch = "4" -> 4 [] ch = "5" -> 5 [] ch = "6" -> 6 [] ch = "7" -> 7
      [] ch = "8" -> 8 [] ch = "9" -> 9
IsDecDigit(ch) == ch \in {"0", "1", "2", "3", "4", "5", "6", "7", "8", "9"}
Unsigned(token) ==
    IF token # << >> /\ token[1] \in {"+", "-"} THEN Tail(token) ELSE token
WellFormed(token) ==
    /\ Unsigned(token) # << >>
    /\ \A k \in 1..Len(Unsigned(token)) : IsDecDigit(Unsigned(token)[k])
RECURSIVE Magnitude(_)
Magnitude(digits) ==
    IF digits = << >> THEN 0
    ELSE 10 * Magnitude(SubSeq(digits, 1, Len(digits) - 1))
            + DecValue(digits[Len(digits)])
TokenValue(token) ==
    IF token[1] = "-" THEN -Magnitude(Unsigned(token))
    ELSE Magnitude(Unsigned(token))

\* C14: parse_const_u8_setcp on the decimal text of v returns v mod 256
\* when -15 <= v < 240 and fails with OutOfRange for every other value.
C14_SetcpWraparound ==
    (range.pc = "done" /\ range.parser = "parse_const_u8_setcp"
            /\ WellFormed(range.par)) =>
        LET v == TokenValue(range.par)
        IN  IF -15 <= v /\ v < 240
            THEN /\ range.result.ok
                 /\ range.result.value = (IF v < 0 THEN v + 256 ELSE v)
            ELSE /\ ~range.result.ok
                 /\ range.result.err = "OutOfRange"

C14_Witness ==
    /\ range.pc = "done"
    /\ range.parser = "parse_const_u8_setcp"
    /\ range.par = <<"-", "1", "5">>
    /\ range.result = Ok(241)

\* The value bounds of each parser, as its documentation states them.
ParserBounds(parser) ==
    CASE parser = "parse_const_u2" -> [lo |-> 0, hi |-> 3]
      [] parser = "parse_const_i4" -> [lo |-> -1, hi |-> 14]
      [] parser = "parse_const_u4" -> [lo |-> 0, hi |-> 15]
      [] parser = "parse_const_u4_14" -> [lo |-> 0, hi |-> 14]
      [] parser = "parse_const_u4_nonzero" -> [lo |-> 1, hi |-> 16]
      [] parser = "parse_const_u10" -> [lo |-> 0, hi |-> 1023]
      [] parser = "parse_const_u8_setcp" -> [lo |-> -15, hi |-> 239]
      [] parser = "parse_const_i8" -> [lo |-> -128, hi |-> 127]

\* C15: a range parser returns OutOfRange for every well-formed integer
\* token whose value lies outside its bounds, and UnexpectedType only for
\* malformed tokens.
C15_ErrorClassification ==
    range.pc = "done" =>
        /\ (WellFormed(range.par)
                /\ (TokenValue(range.par) < ParserBounds(range.parser).lo
                      \/ TokenValue(range.par) > ParserBounds(range.parser).hi))
              => (~range.result.ok /\ range.result.err = "OutOfRange")
        /\ (~range.result.ok /\ range.result.err = "UnexpectedType")
              => ~WellFormed(range.par)

\* The cursor of the finalize step recorded in `call` fits in destination.
Fits ==
    /\ references_free(call.destination) >= references_used(call.cursor)
    /\ bits_used(call.destination) + bits_used(call.cursor) <= 1023
\* destination's offsets with cursor's, moved by `shift`, laid over them.
MergedOffsets(mine, theirs, shift) ==
    [k \in (DOMAIN mine) \cup {j + shift : j \in DOMAIN theirs} |->
        IF \E j \in DOMAIN theirs : j + shift = k
        THEN theirs[CHOOSE j \in DOMAIN theirs : j + shift = k]
        ELSE mine[k]]

InFinalize == call.op \in {"finalize", "finalize_step", "finalize_return"}

\* C18: finalize never panics and runs its loop exactly (segments - 1)
\* times: the segment lists are non-empty, a linking step finds a free
\* reference slot in destination, and append_node's assertion holds.
C18_FinalizeTotal ==
    InFinalize =>
        /\ pc # "panicked"
        /\ call.segments >= 1
        /\ Len(cells) = Len(dbg)
        /\ call.iterations + Len(cells) = call.segments - 1
        /\ call.op = "finalize_return" => call.iterations = call.segments - 1
        /\ (call.op = "finalize_step" /\ ~Fits) =>
              /\ references_free(call.destination) >= 1
              /\ Len(call.next.children) <= 4

C18_Witness ==
    /\ pc = "done"
    /\ call.op = "finalize_return"
    /\ call.segments = 3
    /\ call.iterations = 2
    /\ references_used(cursor) >= 1

\* C19: a successful write binds its position at the bit offset where the
\* command's bits begin: the last segment's bits_used before the call when
\* no segment is opened, and 0 in the segment opened for it.
C19_BindingPosition ==
    [][(IsWrite(call') /\ result' = "Ok") =>
          LET offset == IF Len(cells') = Len(cells)
                        THEN bits_used(Last(cells)) ELSE 0
          IN  /\ offset \in DOMAIN Last(dbg').offsets
              /\ Last(dbg').offsets[offset] = call'.pos]_vars

C19_Witness ==
    /\ IsWrite(call)
    /\ result = "Ok"
    /\ Len(cells) = 1
    /\ call.bits = 8
    /\ bits_used(Last(cells)) = 24
    /\ DOMAIN Last(dbg).offsets = {0, 8, 16}
    /\ Last(dbg).offsets[16] = call.pos
    /\ Last(dbg).offsets[8] # call.pos

\* The composite write recorded in call' went into the last segment / into
\* a new segment / failed.
CompositeInPlace ==
    /\ result' = "Ok"
    /\ Len(cells') = Len(cells)
    /\ Front(cells') = Front(cells)
    /\ Front(dbg') = Front(dbg)
    /\ bits_used(Last(cells')) = bits_used(Last(cells)) + call'.bits
    /\ Last(cells').refs = Append(Last(cells).refs, call'.reference)
    /\ Last(dbg').children = Append(Last(dbg).children, call'.node)
CompositeFresh ==
    /\ result' = "Ok"
    /\ Front(cells') = cells
    /\ bits_used(Last(cells')) = call'.bits
    /\ Last(cells').refs = <<call'.reference>>
    /\ dbg' = Append(dbg, [offsets |-> (0 :> call'.pos),
                           children |-> <<call'.node>>])
CompositeFailed ==
    /\ result' = "NotFitInSlice"
    /\ cells' = cells
    /\ dbg' = dbg
LastTakesComposite ==
    /\ references_free(Last(cells)) > 1
    /\ bits_used(Last(cells)) + call'.bits <= 1023

\* C20 as stated: the composite command goes into the last segment iff it
\* has more than one free reference slot and the opcode bits fit; otherwise
\* a new segment with the opcode bits and the reference is opened.
C20_Original ==
    [][call'.op = "write_composite_command" =>
          IF LastTakesComposite THEN CompositeInPlace ELSE CompositeFresh]_vars

\* C20, amended: as stated, but a new segment is opened only for opcode
\* bits an empty segment holds (at most 1023); longer opcodes fail with
\* NotFitInSlice and leave the writer unchanged.
C20_CompositePlacement ==
    [][call'.op = "write_composite_command" =>
          IF LastTakesComposite THEN CompositeInPlace
          ELSE IF call'.bits <= 1023 THEN CompositeFresh
          ELSE CompositeFailed]_vars

C20_Witness ==
    /\ call.op = "write_composite_command"
    /\ result = "Ok"
    /\ Len(cells) = 2
    /\ references_used(cells[1]) = 3
    /\ Last(cells).refs = <<call.reference>>
    /\ Last(dbg) = [offsets |-> (0 :> call.pos), children |-> <<call.node>>]

\* C28: parse_const_u4_nonzero returns a 4-bit value (0..15) for every token
\* it accepts, that is for every integer in [1, 16].
C28_NonzeroIsFourBit ==
    (range.pc = "done" /\ range.parser = "parse_const_u4_nonzero"
            /\ WellFormed(range.par)
            /\ 1 <= TokenValue(range.par) /\ TokenValue(range.par) <= 16) =>
        (range.result.ok /\ range.result.value \in 0..15)

\* C21: on a cell tree and a DbgNode tree that agree on the reference
\* counts, collect and stackless_collect leave the same map, whatever the
\* starting map.
C21_TraversalEquivalence ==
    (cpc = "done" /\ ~Disagree(input.cell, input.node)) =>
        (~rec.panic /\ map = rec.map)

\* The cells reachable from a cell, and the <<cell, DbgNode>> pairs of a
\* lockstep descent.
RECURSIVE Reachable(_)
Reachable(cell) ==
    {cell} \cup UNION {Reachable(cell.refs[i]) : i \in 1..Len(cell.refs)}
RECURSIVE Paired(_, _)
Paired(cell, node) ==
    {<<cell, node>>} \cup
    UNION {Paired(cell.refs[i], node.children[i]) : i \in 1..Len(cell.refs)}
HexHash(cell) == to_hex_string(repr_hash(cell))

\* C27: on trees that agree on the reference counts, DbgInfo::from yields a
\* map whose keys are exactly the hashes of the reachable cells, with the
\* root's hash bound to the root DbgNode's offsets and every value the
\* offsets of a DbgNode paired with a cell of that hash.
C27_IndexComplete ==
    (cpc = "from" /\ ~Disagree(input.cell, input.node)) =>
        /\ ~rec.panic
        /\ DOMAIN rec.map = {HexHash(c) : c \in Reachable(input.cell)}
        /\ rec.map[HexHash(input.cell)] = input.node.offsets
        /\ \A k \in DOMAIN rec.map :
              \E p \in Paired(input.cell, input.node) :
                  HexHash(p[1]) = k /\ p[2].offsets = rec.map[k]

C27_Witness ==
    /\ cpc = "from"
    /\ input.cell = RootMixed
    /\ ~Disagree(input.cell, input.node)
    /\ Cardinality(DOMAIN rec.map) = 4
    /\ rec.map[HexHash(Leaf1)] = input.node.children[1].children[1].offsets

\* C22: after a.append(b), every hash bound in a keeps a's binding and the
\* hashes bound only in b are added with b's binding.
C22_AppendKeepsFirst ==
    [][other' # other =>
          /\ DOMAIN map' = (DOMAIN map) \cup (DOMAIN other)
          /\ \A k \in DOMAIN map : map'[k] = map[k]
          /\ \A k \in (DOMAIN other) \ (DOMAIN map) : map'[k] = other[k]]_vars

\* The chain of cells from `cell` along n continuation links (a link is
\* the last reference of its cell): the data of the chain and its other
\* references, in order.
RECURSIVE ChainData(_, _)
ChainData(cell, n) ==
    IF n = 0 THEN cell.data
    ELSE cell.data \o ChainData(Last(cell.refs), n - 1)
RECURSIVE ChainRefs(_, _)
ChainRefs(cell, n) ==
    IF n = 0 THEN cell.refs
    ELSE Front(cell.refs) \o ChainRefs(Last(cell.refs), n - 1)

\* C23: after finalize, the data along the chain of continuation links is
\* the data of the successful writes in call order, and the other references
\* of the chain are the references of the successful composite writes in
\* call order.
C23_DataConservation ==
    pc = "done" =>
        /\ ChainData(cursor, call.links) = history.data
        /\ ChainRefs(cursor, call.links) = history.refs

C23_Witness ==
    /\ pc = "done"
    /\ call.links >= 1
    /\ call.iterations > call.links
    /\ Len(history.refs) >= 2
    /\ Len(history.data) >= 4
    /\ \E i, j \in 1..Len(history.data) : history.data[i] # history.data[j]
    /\ ChainData(cursor, call.links) = history.data

\* The cursor of the finalize step recorded in `call` starts with the
\* segment after destination, whose index is Len(cells) + 2.
CursorIsSplit == (Len(cells) + 2) \in history.splits

RECURSIVE ChainPaired(_, _, _)
ChainPaired(cell, node, n) ==
    /\ Len(cell.refs) = Len(node.children)
    /\ n > 0 => /\ cell.refs # << >>
                /\ ChainPaired(Last(cell.refs), Last(node.children), n - 1)
\* The children of the chain's DbgNodes that are no continuation.
RECURSIVE ChainChildren(_, _)
ChainChildren(node, n) ==
    IF n = 0 THEN node.children
    ELSE Front(node.children) \o ChainChildren(Last(node.children), n - 1)
IsSuffix(s, t) ==
    /\ Len(s) <= Len(t)
    /\ s = SubSeq(t, Len(t) - Len(s) + 1, Len(t))

\* C25: in the tree finalize builds, the references of the chain's cells
\* are the composite commands' references in call order, each cell's one
\* continuation link coming after them as its last reference; the DbgNodes
\* mirror this, the continuation's DbgNode being the last child.
C25_LinkIsLast ==
    (call.op \in {"finalize_step", "finalize_return"}) =>
        /\ ChainPaired(cursor, cursor_dbg, call.links)
        /\ IsSuffix(ChainRefs(cursor, call.links), history.refs)
        /\ IsSuffix(ChainChildren(cursor_dbg, call.links), history.nodes)
        /\ pc = "done" =>
              /\ ChainRefs(cursor, call.links) = history.refs
              /\ ChainChildren(cursor_dbg, call.links) = history.nodes
        /\ (call.op = "finalize_step" /\ ~Fits) =>
              /\ Last(cursor.refs) = call.cursor
              /\ Last(cursor_dbg.children) = call.dbg

C25_Witness ==
    /\ pc = "done"
    /\ call.links = 2
    /\ Len(cursor.refs) >= 2
    /\ Len(Last(cursor.refs).refs) >= 2
    /\ ChainRefs(cursor, call.links) = history.refs
    /\ ChainChildren(cursor_dbg, call.links) = history.nodes

\* The number of offset entries of the DbgNodes along n continuation links.
RECURSIVE ChainOffsets(_, _)
ChainOffsets(node, n) ==
    Cardinality(DOMAIN node.offsets) +
    (IF n = 0 THEN 0 ELSE ChainOffsets(Last(node.children), n - 1))

\* C26: when no command of zero bits is written, no offset binding is
\* overwritten: every segment's DbgNode has one entry per command written
\* into the segment, all below the segment's bits_used; an inlining finalize
\* step keeps every entry of both nodes; the final chain has as many
\* entries as there were successful writes.
C26_NoOffsetOverwrite ==
    ~history.zero =>
        /\ pc = "write" =>
              \A i \in 1..Len(cells) :
                  /\ Cardinality(DOMAIN dbg[i].offsets) = Len(cells[i].data)
                  /\ \A k \in DOMAIN dbg[i].offsets : k < bits_used(cells[i])
        /\ (call.op = "finalize_step" /\ Fits) =>
              Cardinality(DOMAIN cursor_dbg.offsets) =
                  Cardinality(DOMAIN call.next.offsets)
                      + Cardinality(DOMAIN call.dbg.offsets)
        /\ pc = "done" =>
              ChainOffsets(cursor_dbg, call.links) = Len(history.data)

C26_Witness ==
    /\ pc = "done"
    /\ ~history.zero
    /\ call.links >= 1
    /\ call.iterations > call.links
    /\ Len(history.refs) >= 1
    /\ Len(history.data) = 5
    /\ ChainOffsets(cursor_dbg, call.links) = 5

=============================================================================
